---- MODULE Spec2Model ----
(***************************************************************************)
(* A model of functioncache/__init__.py: the decorator `functioncache`,    *)
(* the per-module registry OPEN_DBS, the key derivation `_args_key`, the   *)
(* error log `_log_error`, and the wrapper `function_with_cache`, which is *)
(* modelled in its three phases (lookup, the wrapped call, store).         *)
(*                                                                         *)
(* The two backend classes of the file cannot be constructed: the          *)
(* constructor of FunctioncacheShelveBackend reads the undefined global    *)
(* `cache_name` (line 125) and the constructor of FunctioncacheFileBackend *)
(* reaches `os.makedirs` in mkdir_p (line 141) although only `_os` is      *)
(* imported; both raise NameError out of the decorator.  A wrapper is      *)
(* therefore only ever set up over a store that the caller passes in as    *)
(* the DB argument (line 178); the module docstring (line 48) describes    *)
(* `_db` as "a shelve, like a dict", and that is what the caller-supplied  *)
(* store is here: a persistent mapping whose writes reach the disk only    *)
(* when they are synced (the comment of line 135).                         *)
(***************************************************************************)
EXTENDS Integers, Sequences, FiniteSets, TLC

\* ---------------------------------------------------------------- bounds
MaxTime == 2          \* the clock _time.time() runs over 0..MaxTime

\* ------------------------------------------------------- the program text
\* The decorated functions of the program, with function.__name__ and
\* inspect.getfile(function) (a file name is a sequence of characters).
Funcs == {"f1"}
FuncName(f) == "f"
FuncFile(f) == IF f = "f3" THEN <<"n">> ELSE <<"<", "m", ">">>

Threads == {"t1"}

\* The larger programs: f1 and f2 are two functions of one file that carry
\* the same name (two nested functions, two methods), f3 is a function of
\* the same name in another file; and a second thread.
AllFuncs == {"f1", "f2", "f3"}
AllThreads == {"t1", "t2"}

\* Return values of the wrapped function (it may answer differently when it
\* is executed again: a downloaded page changes).
Values == {"v1", "v2"}

\* FOREVER = None (line 76); a finite validity of n seconds is <<n>>.
FOREVER == <<>>
Windows == {FOREVER, <<1>>, <<2>>}

\* '@functioncache' without a call (lines 226-229): seconds_of_validity is the
\* decorated function itself, which is what the closure then holds.
BARE == <<"function", "object">>

\* The DB argument of functioncache (line 178): the two classes of the file
\* and a caller-supplied factory that opens a shelf by the cache name.
DBs == {"FunctioncacheShelveBackend", "FunctioncacheFileBackend", "shelf"}

\* Call arguments: f(a=1, b=2), f(b=2, a=1), and f(<lambda>), whose argument
\* cannot be pickled.
KwAB == [pos |-> <<>>, kw |-> << <<"a", "1">>, <<"b", "2">> >>]
KwBA == [pos |-> <<>>, kw |-> << <<"b", "2">>, <<"a", "1">> >>]
Unpicklable == [pos |-> <<"lambda">>, kw |-> <<>>]
CallArgs == {KwAB, KwBA, Unpicklable}

\* ------------------------------------------------------------ pure parts
\* _get_cache_name (lines 80-92): '<' -> '_lt_', '>' -> '_gt_', + '.cache'.
RECURSIVE Replace(_, _, _)
Replace(s, c, r) ==
    IF s = <<>> THEN <<>>
    ELSE (IF Head(s) = c THEN r ELSE <<Head(s)>>) \o Replace(Tail(s), c, r)

_get_cache_name(f) ==
    Replace(Replace(FuncFile(f), "<", <<"_lt_">>), ">", <<"_gt_">>) \o <<".cache">>

\* The order in which pickle walks the kwargs dict: the dict's own iteration
\* order, which is the order of the keywords at the call site; nothing in
\* _args_key sorts it (line 108).
IterationOrder(kw) == kw

RECURSIVE DumpItems(_)
DumpItems(items) ==
    IF items = <<>> THEN <<>>
    ELSE <<items[1][1], items[1][2]>> \o DumpItems(Tail(items))

\* pickle.dumps((args, kwargs), protocol=0) (lines 108-118), as tokens.
PicklingError(a) == \E i \in 1..Len(a.pos) : a.pos[i] = "lambda"
Dumps(a) == <<"(">> \o a.pos \o <<"{">> \o DumpItems(IterationOrder(a.kw)) \o <<"}">>

\* _args_key (lines 107-121): function.__name__ + arguments_pickle.
_args_key(f, a) == <<FuncName(f)>> \o Dumps(a)

UNBOUND == <<>>       \* the local `key` before line 186 has assigned it

\* _retval (line 66)
_retval(timesig, data) == [timesig |-> timesig, data |-> data]

\* Mutants of IsValid: the boundary is included; None is not tested for.
IsValid_Inclusive(rv, seconds_of_validity, t) ==
    seconds_of_validity = FOREVER \/ t - rv.timesig <= seconds_of_validity[1]
IsValid_NoNone(rv, seconds_of_validity, t) ==
    seconds_of_validity # FOREVER /\ t - rv.timesig < seconds_of_validity[1]

\* The validity test of line 190.
IsValid(rv, seconds_of_validity, t) ==
    seconds_of_validity = FOREVER \/ t - rv.timesig < seconds_of_validity[1]

\* DB(function) (line 219): what the constructor does.
Construct(DB) ==
    CASE DB = "FunctioncacheShelveBackend" -> "NameError"     \* line 125
      [] DB = "FunctioncacheFileBackend" -> "NameError"       \* lines 160, 141
      [] OTHER -> "opened"

\* Mutants of SetItem: the assignment is lost; an entry that is there is kept
\* (setdefault); the mapping is replaced by one that holds the new entry only.
SetItem_Lost(db, key, value) == db
SetItem_Keep(db, key, value) ==
    [k \in DOMAIN db \cup {key} |-> IF k \in DOMAIN db THEN db[k] ELSE value]
SetItem_Only(db, key, value) == [k \in {key} |-> value]

\* function._db[key] = value (line 203) on a mapping.
SetItem(db, key, value) ==
    [k \in DOMAIN db \cup {key} |-> IF k = key THEN value ELSE db[k]]

EmptyDb == [k \in {} |-> _retval(0, "v1")]

\* Mutant of Handle: the backend opens the file of one module-wide
\* cache_name (as line 125 reads it), whatever function it is given.
Handle_OneFile(DB, name, n) == [db |-> DB, name |-> _get_cache_name("f1"), n |-> n]

\* The backend object DB(function) returns: its class, the cache it opened,
\* and which of the objects opened over that cache in this process it is.
Handle(DB, name, n) == [db |-> DB, name |-> name, n |-> n]

\* A record that a crash cut short in the middle of its write: reading it
\* (function._db[key], line 189) raises.
CorruptEntry == [timesig |-> 0, data |-> "corrupt"]
Corrupt(db, key) == key \in DOMAIN db /\ db[key] = CorruptEntry

\* line 190 when seconds_of_validity is a function object: a number is
\* smaller than any other object in Python 2, and the comparison raises
\* TypeError in Python 3.
Validity(seconds_of_validity) ==
    IF seconds_of_validity = BARE THEN FOREVER ELSE seconds_of_validity
TypeError(db, key, seconds_of_validity, python) ==
    key \in DOMAIN db /\ seconds_of_validity = BARE /\ python = 3

\* Mutant of Lookup: the `return rv.data` of line 191 is missing.
Lookup_NoReturn(db, key, seconds_of_validity, t) ==
    IF key \in DOMAIN db THEN <<"stale", "">> ELSE <<"miss", "">>

\* lines 188-191: the entry is returned when it is there and still valid;
\* otherwise the call goes on to line 199.
Lookup(db, key, seconds_of_validity, t) ==
    IF key \in DOMAIN db
    THEN IF IsValid(db[key], seconds_of_validity, t)
         THEN <<"hit", db[key].data>>
         ELSE <<"stale", "">>
    ELSE <<"miss", "">>

\* Mutants of OnError: the exception is swallowed whatever fail_silently
\* says; it is raised whatever fail_silently says.
OnError_AlwaysSwallow(fail_silently) == "swallowed"
OnError_AlwaysRaise(fail_silently) == "raised"

\* lines 196-197 and 208-209: `if not fail_silently: raise`.
OnError(fail_silently) == IF fail_silently THEN "swallowed" ELSE "raised"

\* _log_error (lines 95-105): the record is written, or writing it fails and
\* the `except Exception: pass` of lines 104-105 swallows that.
_log_error(writable) == IF writable THEN "written" ELSE "failed"

\* An attribute or a registry entry is bound: function._db = ... (lines 217,
\* 219), OPEN_DBS[cache_name] = ... (line 220), the closure of the wrapper.
Bind(m, k, v) == [x \in DOMAIN m \cup {k} |-> IF x = k THEN v ELSE m[x]]

\* ----------------------------------------------------------------- state
VARIABLES
    now,        \* _time.time()
    OPEN_DBS,   \* line 78: cache name -> the backend object registered for it
    fdb,        \* function._db, for the functions that have the attribute
    deco,       \* the closure of each wrapper: validity and fail_silently
    shelf,      \* cache name -> the content of the store as the process sees it
    disk,       \* cache name -> the content that has reached the disk
    frame,      \* per thread: the running call of function_with_cache
    pending,    \* per thread: the running functioncache_decorator, between
                \* its test of OPEN_DBS (line 216) and its DB(function) (219)
    py,         \* sys.version_info[0] of the interpreter
    op          \* the step taken last: what it was, what it handed to the
                \* caller, how often the wrapped function has run in the call,
                \* and what became of its record in functioncache.err.log

vars == <<now, OPEN_DBS, fdb, deco, shelf, disk, frame, pending, py, op>>

CacheNames == {_get_cache_name(f) : f \in Funcs}
AllCacheNames == {_get_cache_name(f) : f \in AllFuncs}

NoHandle == [n \in {} |-> Handle("shelf", <<>>, 1)]
NoPending == [pc |-> "none", f |-> "f1", closure |-> [validity |-> FOREVER,
              fail_silently |-> FALSE], DB |-> "shelf"]

Idle == [pc |-> "idle", f |-> "f1", key |-> UNBOUND, retval |-> "", ran |-> 0]

Step(type, t, f, key, outcome, val, ran, logged) ==
    [type |-> type, t |-> t, f |-> f, key |-> key, outcome |-> outcome,
     val |-> val, ran |-> ran, logged |-> logged]

Env(type) == Step(type, "t1", "f1", UNBOUND, "", "", 0, "none")

Closure(w, fs) == [validity |-> w, fail_silently |-> fs]

Init ==
    /\ now = 0
    /\ OPEN_DBS = NoHandle
    /\ fdb = NoHandle
    /\ deco = [f \in {} |-> Closure(FOREVER, FALSE)]
    /\ shelf = [n \in AllCacheNames |-> EmptyDb]
    /\ disk = [n \in AllCacheNames |-> EmptyDb]
    /\ frame = [t \in AllThreads |-> Idle]
    /\ pending = [t \in AllThreads |-> NoPending]
    /\ py = 3
    /\ op = Env("init")

\* The backend objects that were opened over a cache in this process and
\* are still referred to.
Opened(name) ==
    Cardinality({h \in {fdb[f] : f \in DOMAIN fdb}
                        \cup {OPEN_DBS[n] : n \in DOMAIN OPEN_DBS} : h.name = name})

\* ---------------------------------------------------------------- actions
\* functioncache(seconds_of_validity, fail_silently, DB)(function): lines
\* 178-231, with the setup of lines 213-224.  A constructor that raises
\* leaves the decorator before anything is bound.
Decorate(f, w, fs, DB) ==
    /\ f \notin DOMAIN deco
    /\ LET name == _get_cache_name(f) IN
       IF f \in DOMAIN fdb
       THEN /\ deco' = Bind(deco, f, Closure(w, fs))
            /\ UNCHANGED <<OPEN_DBS, fdb>>
            /\ op' = Step("decorate", "t1", f, UNBOUND, "ok", "", 0, "none")
       ELSE IF name \in DOMAIN OPEN_DBS
       THEN /\ fdb' = Bind(fdb, f, OPEN_DBS[name])
            /\ deco' = Bind(deco, f, Closure(w, fs))
            /\ UNCHANGED OPEN_DBS
            /\ op' = Step("decorate", "t1", f, UNBOUND, "ok", "", 0, "none")
       ELSE IF Construct(DB) = "opened"
       THEN /\ fdb' = Bind(fdb, f, Handle(DB, name, Opened(name) + 1))
            /\ OPEN_DBS' = Bind(OPEN_DBS, name, Handle(DB, name, Opened(name) + 1))
            /\ deco' = Bind(deco, f, Closure(w, fs))
            /\ op' = Step("decorate", "t1", f, UNBOUND, "ok", "", 0, "none")
       ELSE /\ UNCHANGED <<OPEN_DBS, fdb, deco>>
            /\ op' = Step("decorate", "t1", f, UNBOUND, Construct(DB), "", 0, "none")
    /\ UNCHANGED <<now, shelf, disk, frame, pending, py>>

\* function_with_cache, lines 184-197: the key, the lookup and the validity
\* test.  `ioerr`: the store raises on `key in function._db` or on
\* `function._db[key]`; `writable`: the log file can be appended to.
CallLookup(t, f, a, ioerr, writable) ==
    /\ frame[t].pc = "idle"
    /\ f \in DOMAIN deco
    /\ LET c == deco[f]
           db == shelf[fdb[f].name]
           key == IF PicklingError(a) THEN UNBOUND ELSE _args_key(f, a)
           raises == \/ PicklingError(a) \/ ioerr \/ Corrupt(db, key)
                     \/ TypeError(db, key, c.validity, py)
           got == Lookup(db, key, Validity(c.validity), now)
           goon == [pc |-> "call", f |-> f, key |-> key, retval |-> "", ran |-> 0]
       IN
       IF raises
       THEN /\ frame' = IF OnError(c.fail_silently) = "raised" THEN frame
                        ELSE [frame EXCEPT ![t] = goon]
            /\ op' = Step("lookup", t, f, key, OnError(c.fail_silently), "", 0,
                          _log_error(writable))
       ELSE /\ frame' = IF got[1] = "hit" THEN frame
                        ELSE [frame EXCEPT ![t] = goon]
            /\ op' = Step("lookup", t, f, key, got[1], got[2], 0, "none")
    /\ UNCHANGED <<now, OPEN_DBS, fdb, deco, shelf, disk, pending, py>>

\* Mutant of Propagate: line 199 sits inside a try whose handler swallows
\* the exception, and the call goes on to line 203.
Propagate_Swallowed(fr) == [fr EXCEPT !.pc = "store", !.ran = @ + 1]

\* line 199 is outside both try blocks: an exception of the wrapped function
\* ends the call of function_with_cache.
Propagate(fr) == Idle

\* line 199: retval = function(*args, **kwargs); the function returns v or
\* raises, and its exception leaves function_with_cache.
CallCompute(t, v, fails) ==
    /\ frame[t].pc = "call"
    /\ IF fails
       THEN /\ frame' = [frame EXCEPT ![t] = Propagate(frame[t])]
            /\ op' = Step("compute", t, frame[t].f, frame[t].key, "raised", "",
                          frame[t].ran + 1, "none")
       ELSE /\ frame' = [frame EXCEPT ![t].pc = "store", ![t].retval = v,
                                      ![t].ran = @ + 1]
            /\ op' = Step("compute", t, frame[t].f, frame[t].key, "computed", "",
                          frame[t].ran + 1, "none")
    /\ UNCHANGED <<now, OPEN_DBS, fdb, deco, shelf, disk, pending, py>>

\* lines 201-211: function._db[key] = _retval(_time.time(), retval), and the
\* return of retval.  `ioerr`: the store raises on the assignment; an
\* unbound `key` raises UnboundLocalError there.
CallStore(t, ioerr, writable) ==
    /\ frame[t].pc = "store"
    /\ LET fr == frame[t]
           c == deco[fr.f]
           name == fdb[fr.f].name
           raises == fr.key = UNBOUND \/ ioerr
       IN
       IF raises
       THEN /\ shelf' = shelf
            /\ op' = Step("store", t, fr.f, fr.key, OnError(c.fail_silently),
                          IF OnError(c.fail_silently) = "raised" THEN "" ELSE fr.retval,
                          fr.ran, _log_error(writable))
       ELSE /\ shelf' = [shelf EXCEPT ![name] =
                          SetItem(@, fr.key, _retval(now, fr.retval))]
            /\ op' = Step("store", t, fr.f, fr.key, "stored", fr.retval, fr.ran,
                          "none")
    /\ frame' = [frame EXCEPT ![t] = Idle]
    /\ UNCHANGED <<now, OPEN_DBS, fdb, deco, disk, pending, py>>

\* _time.time() advances.
Tick ==
    /\ now < MaxTime
    /\ now' = now + 1
    /\ op' = Env("tick")
    /\ UNCHANGED <<OPEN_DBS, fdb, deco, shelf, disk, frame, pending, py>>

\* The writes of a store reach the disk (the store's own flushing).  Nothing
\* in function_with_cache asks for it: line 203 assigns and line 211 returns.
Flush(name) ==
    /\ disk[name] # shelf[name]
    /\ disk' = [disk EXCEPT ![name] = shelf[name]]
    /\ op' = Env("flush")
    /\ UNCHANGED <<now, OPEN_DBS, fdb, deco, shelf, frame, pending, py>>

\* The interpreter dies (line 4, line 135) and the program is started again:
\* the module is imported afresh, nothing is decorated yet, and the stores
\* hold what had reached the disk.
Crash ==
    /\ OPEN_DBS' = NoHandle
    /\ fdb' = NoHandle
    /\ deco' = [f \in {} |-> Closure(FOREVER, FALSE)]
    /\ shelf' = disk
    /\ frame' = [t \in AllThreads |-> Idle]
    /\ pending' = [t \in AllThreads |-> NoPending]
    /\ op' = Env("crash")
    /\ UNCHANGED <<now, disk, py>>

Next ==
    \/ \E f \in Funcs, w \in Windows, fs \in BOOLEAN, DB \in DBs : Decorate(f, w, fs, DB)
    \/ \E t \in Threads, f \in Funcs, a \in CallArgs, ioerr, writable \in BOOLEAN :
          CallLookup(t, f, a, ioerr, writable)
    \/ \E t \in Threads, v \in Values, fails \in BOOLEAN : CallCompute(t, v, fails)
    \/ \E t \in Threads, ioerr, writable \in BOOLEAN : CallStore(t, ioerr, writable)
    \/ Tick
    \/ \E name \in CacheNames : Flush(name)
    \/ Crash

Spec == Init /\ [][Next]_vars

\* ------------------------------------------------- the setup, step by step
\* Factories a caller passes as DB: each returns a mapping kept in a file
\* named after the cache.
CallerDBs == {"shelf", "dbm"}

\* functioncache_decorator up to line 217, run by thread t: the tests of lines
\* 214 and 216, and the reuse of the registered backend.  Nothing between
\* line 216 and line 220 keeps another thread out.
SetupCheck(t, f, w, fs, DB) ==
    /\ pending[t].pc = "none"
    /\ frame[t].pc = "idle"
    /\ f \notin DOMAIN deco
    /\ \A u \in AllThreads : pending[u].pc = "open" => pending[u].f # f
    /\ LET name == _get_cache_name(f) IN
       IF f \in DOMAIN fdb
       THEN /\ deco' = Bind(deco, f, Closure(w, fs))
            /\ UNCHANGED <<fdb, pending>>
            /\ op' = Step("decorate", t, f, UNBOUND, "ok", "", 0, "none")
       ELSE IF name \in DOMAIN OPEN_DBS
       THEN /\ fdb' = Bind(fdb, f, OPEN_DBS[name])
            /\ deco' = Bind(deco, f, Closure(w, fs))
            /\ UNCHANGED pending
            /\ op' = Step("decorate", t, f, UNBOUND, "ok", "", 0, "none")
       ELSE /\ pending' = [pending EXCEPT ![t] =
                            [pc |-> "open", f |-> f, closure |-> Closure(w, fs),
                             DB |-> DB]]
            /\ UNCHANGED <<fdb, deco>>
            /\ op' = Step("check", t, f, UNBOUND, "absent", "", 0, "none")
    /\ UNCHANGED <<now, OPEN_DBS, shelf, disk, frame, py>>

\* lines 219-224 in thread t: DB(function), its registration in OPEN_DBS
\* (whatever is registered by now), and the return of the wrapper.
SetupOpen(t) ==
    /\ pending[t].pc = "open"
    /\ LET p == pending[t]
           name == _get_cache_name(p.f)
           h == Handle(p.DB, name, Opened(name) + 1)
       IN
       IF Construct(p.DB) = "opened"
       THEN /\ fdb' = Bind(fdb, p.f, h)
            /\ OPEN_DBS' = Bind(OPEN_DBS, name, h)
            /\ deco' = Bind(deco, p.f, p.closure)
            /\ op' = Step("open", t, p.f, UNBOUND, "ok", "", 0, "none")
       ELSE /\ UNCHANGED <<OPEN_DBS, fdb, deco>>
            /\ op' = Step("open", t, p.f, UNBOUND, Construct(p.DB), "", 0, "none")
    /\ pending' = [pending EXCEPT ![t] = NoPending]
    /\ UNCHANGED <<now, shelf, disk, frame, py>>

\* Two threads decorate the two functions of one file, and call them.
NextSetup ==
    \/ \E t \in AllThreads, f \in {"f1", "f2"}, fs \in BOOLEAN,
          DB \in CallerDBs \cup {"FunctioncacheShelveBackend"} :
          SetupCheck(t, f, FOREVER, fs, DB)
    \/ \E t \in AllThreads : SetupOpen(t)
    \/ \E t \in AllThreads, f \in {"f1", "f2"} : CallLookup(t, f, KwAB, FALSE, TRUE)
    \/ \E t \in AllThreads, v \in Values : CallCompute(t, v, FALSE)
    \/ \E t \in AllThreads : CallStore(t, FALSE, TRUE)
    \/ Crash

SpecSetup == Init /\ [][NextSetup]_vars

\* ------------------------------------------- two threads call one function
NextThreads ==
    \/ \E w \in {FOREVER, <<1>>} : Decorate("f1", w, FALSE, "shelf")
    \/ \E t \in AllThreads, a \in {KwAB, KwBA} : CallLookup(t, "f1", a, FALSE, TRUE)
    \/ \E t \in AllThreads, v \in Values : CallCompute(t, v, FALSE)
    \/ \E t \in AllThreads : CallStore(t, FALSE, TRUE)
    \/ Tick

SpecThreads == Init /\ [][NextThreads]_vars

\* ----------------------------------------- functions of two different files
NextFiles ==
    \/ \E f \in {"f1", "f3"}, w \in {FOREVER, <<1>>} : Decorate(f, w, FALSE, "shelf")
    \/ \E f \in {"f1", "f3"} : CallLookup("t1", f, KwAB, FALSE, TRUE)
    \/ \E v \in Values : CallCompute("t1", v, FALSE)
    \/ CallStore("t1", FALSE, TRUE)
    \/ Tick
    \/ \E name \in AllCacheNames : Flush(name)
    \/ Crash

SpecFiles == Init /\ [][NextFiles]_vars

\* -------------------------------------------- windows of no positive length
\* seconds_of_validity = 0 and a negative seconds_of_validity: functioncache
\* (line 178) takes any number.
NonPositive == {<<0>>, <<-1>>}

NextWindows ==
    \/ \E w \in NonPositive \cup {FOREVER} : Decorate("f1", w, FALSE, "shelf")
    \/ \E a \in {KwAB, KwBA} : CallLookup("t1", "f1", a, FALSE, TRUE)
    \/ \E v \in Values : CallCompute("t1", v, FALSE)
    \/ CallStore("t1", FALSE, TRUE)
    \/ Tick
    \/ \E name \in CacheNames : Flush(name)
    \/ Crash

SpecWindows == Init /\ [][NextWindows]_vars

\* ------------------------------------------- the invalidation of one value
\* del db[key] on the mapping.
DelItem(db, key) == [k \in DOMAIN db \ {key} |-> db[k]]

\* The docstring's trick, lines 41-47:
\*     del somefunc._db[functioncache._args_key(somefunc, args, kwargs)]
\* which is all the module offers for removing an entry.  On a mapping, del
\* of a key that is not there raises KeyError.
Invalidate(f, a) ==
    /\ f \in DOMAIN fdb
    /\ ~PicklingError(a)
    /\ \A t \in AllThreads : frame[t].pc = "idle"
    /\ LET key == _args_key(f, a)
           name == fdb[f].name
       IN
       IF key \in DOMAIN shelf[name]
       THEN /\ shelf' = [shelf EXCEPT ![name] = DelItem(@, key)]
            /\ op' = Step("delete", "t1", f, key, "deleted", "", 0, "none")
       ELSE /\ shelf' = shelf
            /\ op' = Step("delete", "t1", f, key, "KeyError", "", 0, "none")
    /\ UNCHANGED <<now, OPEN_DBS, fdb, deco, disk, frame, pending, py>>

NextDelete ==
    \/ Decorate("f1", FOREVER, FALSE, "shelf")
    \/ \E a \in {KwAB, KwBA} : CallLookup("t1", "f1", a, FALSE, TRUE)
    \/ \E v \in Values : CallCompute("t1", v, FALSE)
    \/ CallStore("t1", FALSE, TRUE)
    \/ \E a \in {KwAB, KwBA} : Invalidate("f1", a)
    \/ Tick

SpecDelete == Init /\ [][NextDelete]_vars

\* ------------------------------------------------ the decorator, not called
\* sys.version_info[0] (line 111): the module says it is tested on Python 2.7
\* and 3.1.
Pythons == {2, 3}

InitBare ==
    /\ now = 0
    /\ OPEN_DBS = NoHandle
    /\ fdb = NoHandle
    /\ deco = [f \in {} |-> Closure(FOREVER, FALSE)]
    /\ shelf = [n \in AllCacheNames |-> EmptyDb]
    /\ disk = [n \in AllCacheNames |-> EmptyDb]
    /\ frame = [t \in AllThreads |-> Idle]
    /\ pending = [t \in AllThreads |-> NoPending]
    /\ py \in Pythons
    /\ op = Env("init")

\* '@functioncache' on f (lines 226-229): functioncache_decorator(func) under
\* the closure of functioncache(func), whose seconds_of_validity is func and
\* whose fail_silently and DB are the defaults of line 178.
DecorateBare(f) == Decorate(f, BARE, FALSE, "FunctioncacheShelveBackend")

\* f1 is decorated with a caller's DB, which registers the backend of the
\* file; f2, of the same file, is decorated bare and called.
NextBare ==
    \/ Decorate("f1", FOREVER, FALSE, "shelf")
    \/ DecorateBare("f2")
    \/ \E a \in {KwAB, KwBA} : CallLookup("t1", "f2", a, FALSE, TRUE)
    \/ \E v \in Values : CallCompute("t1", v, FALSE)
    \/ CallStore("t1", FALSE, TRUE)
    \/ Tick

SpecBare == InitBare /\ [][NextBare]_vars

\* ------------------------------------ two functions of one name in one file
NextNames ==
    \/ \E f \in {"f1", "f2"} : Decorate(f, FOREVER, FALSE, "shelf")
    \/ \E f \in {"f1", "f2"}, a \in {KwAB, KwBA} : CallLookup("t1", f, a, FALSE, TRUE)
    \/ \E v \in Values : CallCompute("t1", v, FALSE)
    \/ CallStore("t1", FALSE, TRUE)
    \/ Tick

SpecNames == Init /\ [][NextNames]_vars

\* --------------------------------------------- a crash in the middle of a write
\* The interpreter dies while line 203 writes the entry of thread t's call:
\* what reaches the disk under the key is a record cut short (the file
\* backend's pickle.dump into open(..., 'w'), lines 168-172, truncates the
\* file and never closes it), and the program is started again.
CrashMidStore(t) ==
    /\ frame[t].pc = "store"
    /\ frame[t].key # UNBOUND
    /\ LET name == fdb[frame[t].f].name IN
       /\ disk' = [disk EXCEPT ![name] = SetItem(@, frame[t].key, CorruptEntry)]
       /\ shelf' = disk'
    /\ OPEN_DBS' = NoHandle
    /\ fdb' = NoHandle
    /\ deco' = [f \in {} |-> Closure(FOREVER, FALSE)]
    /\ frame' = [u \in AllThreads |-> Idle]
    /\ pending' = [u \in AllThreads |-> NoPending]
    /\ op' = Env("crash")
    /\ UNCHANGED <<now, py>>

NextCorrupt ==
    \/ \E fs \in BOOLEAN : Decorate("f1", FOREVER, fs, "shelf")
    \/ \E a \in {KwAB, KwBA} : CallLookup("t1", "f1", a, FALSE, TRUE)
    \/ \E v \in Values : CallCompute("t1", v, FALSE)
    \/ CallStore("t1", FALSE, TRUE)
    \/ \E name \in CacheNames : Flush(name)
    \/ Crash
    \/ CrashMidStore("t1")

SpecCorrupt == Init /\ [][NextCorrupt]_vars

\* ----------------------------------------------------------------- claims
\* A lookup that no exception interrupted.
Answered(o) == o.type = "lookup" /\ o.outcome \in {"hit", "stale", "miss"}
\* The store a function's calls go to.
StoreOf(f) == shelf[fdb[f].name]

\* C1: round trip.  When a Put of value V under key k has completed and the
\* very next step is a Get of k under validity forever (that no exception
\* interrupts), the Get is a hit and returns V.
C1_RoundTrip ==
    [][(/\ op.type = "store" /\ op.outcome = "stored"
        /\ Answered(op') /\ op'.key = op.key /\ fdb[op'.f] = fdb[op.f]
        /\ deco[op'.f].validity = FOREVER)
       => (op'.outcome = "hit" /\ op'.val = op.val)]_vars

\* A Get under forever has returned the value of an entry written at this
\* very instant.
C1_Witness ==
    /\ Answered(op) /\ op.outcome = "hit"
    /\ deco[op.f].validity = FOREVER
    /\ StoreOf(op.f)[op.key] = _retval(now, op.val)

\* C2: a call that finds an entry for its key that is still valid returns the
\* entry's payload, does not execute the wrapped function (the call is over,
\* with no execution counted) and leaves the store as it was; and only such a
\* call is a hit.
C2_HitFrame ==
    [][Answered(op') =>
         LET present == op'.key \in DOMAIN StoreOf(op'.f)
             w == deco[op'.f].validity
             valid == w = FOREVER \/ now - StoreOf(op'.f)[op'.key].timesig < w[1]
         IN /\ (op'.outcome = "hit") <=> (present /\ valid)
            /\ op'.outcome = "hit" =>
                 /\ op'.val = StoreOf(op'.f)[op'.key].data
                 /\ op'.ran = 0
                 /\ frame'[op'.t].pc = "idle"
                 /\ shelf' = shelf /\ disk' = disk]_vars

\* A hit under a finite validity, on an entry written earlier.
C2_Witness ==
    /\ Answered(op) /\ op.outcome = "hit"
    /\ deco[op.f].validity # FOREVER
    /\ StoreOf(op.f)[op.key].timesig < now
    /\ frame[op.t].pc = "idle"

\* C3: the expiry boundary is exclusive.  Under a finite window w, a Get at
\* time t of an entry written at T is a hit exactly when t - T < w.
C3_ExpiryBoundary ==
    (/\ Answered(op)
     /\ deco[op.f].validity # FOREVER
     /\ op.key \in DOMAIN StoreOf(op.f))
    => ((op.outcome = "hit") <=>
          (now - StoreOf(op.f)[op.key].timesig < deco[op.f].validity[1]))

\* A Get at exactly T + w, with w > 1 so that T + w - 1 > T was still a hit
\* time: it is reported stale.
C3_Witness ==
    /\ Answered(op) /\ op.outcome = "stale"
    /\ deco[op.f].validity # FOREVER
    /\ deco[op.f].validity[1] > 1
    /\ now - StoreOf(op.f)[op.key].timesig = deco[op.f].validity[1]

\* C4: under validity forever (None) a Get of a stored entry is a hit,
\* however long ago the entry was written.
C4_Forever ==
    (/\ Answered(op)
     /\ deco[op.f].validity = FOREVER
     /\ op.key \in DOMAIN StoreOf(op.f))
    => (op.outcome = "hit" /\ op.val = StoreOf(op.f)[op.key].data)

\* A hit under forever on an entry as old as the clock allows.
C4_Witness ==
    /\ Answered(op) /\ op.outcome = "hit"
    /\ deco[op.f].validity = FOREVER
    /\ now - StoreOf(op.f)[op.key].timesig = MaxTime

\* C5: overwrite.  A Put that completes replaces the entry of its key, payload
\* and write time, whatever was there, and changes no other key; and a Get that
\* hits returns the payload of the entry that is in the store, that is, of the
\* last Put.
C5_Overwrite ==
    [][/\ (op'.type = "store" /\ op'.outcome = "stored") =>
            /\ DOMAIN shelf'[fdb[op'.f].name] = DOMAIN StoreOf(op'.f) \cup {op'.key}
            /\ shelf'[fdb[op'.f].name][op'.key] = [timesig |-> now, data |-> op'.val]
            /\ op'.val = frame[op'.t].retval
            /\ \A k \in DOMAIN StoreOf(op'.f) \ {op'.key} :
                  shelf'[fdb[op'.f].name][k] = StoreOf(op'.f)[k]
       /\ (Answered(op') /\ op'.outcome = "hit") =>
            op'.val = StoreOf(op'.f)[op'.key].data]_vars

\* A Get returns V2 while the disk still holds the stale entry with V1 that
\* the second Put has overwritten in the store.
C5_Witness ==
    /\ Answered(op) /\ op.outcome = "hit"
    /\ op.key \in DOMAIN disk[fdb[op.f].name]
    /\ disk[fdb[op.f].name][op.key].data # op.val
    /\ deco[op.f].validity # FOREVER
    /\ now - disk[fdb[op.f].name][op.key].timesig >= deco[op.f].validity[1]

\* C6: key determinism.  Two calls that pass the same keyword arguments in a
\* different order have the same key, so a call misses only when no call
\* with the same arguments has stored an entry.
SameArguments(a, b) ==
    /\ a.pos = b.pos
    /\ {a.kw[i] : i \in 1..Len(a.kw)} = {b.kw[i] : i \in 1..Len(b.kw)}

C6_KeyDeterminism ==
    (Answered(op) /\ op.outcome = "miss") =>
        ~ \E a, b \in CallArgs :
              /\ SameArguments(a, b) /\ ~PicklingError(a)
              /\ _args_key(op.f, b) = op.key
              /\ _args_key(op.f, a) \in DOMAIN StoreOf(op.f)

\* C7: durability.  A crash loses no entry of a Put that has returned: every
\* entry in a store before the crash is in it, unchanged, after the restart.
C7_Durability ==
    [][op'.type = "crash" =>
         \A n \in CacheNames : \A k \in DOMAIN shelf[n] :
             k \in DOMAIN shelf'[n] /\ shelf'[n][k] = shelf[n][k]]_vars

\* C8: no automatic deletion.  No step of a cached call removes a key; only
\* a completed Put changes an entry, and only the entry of its own key; a Get
\* that finds a stale entry is a miss (the call goes on to compute) and
\* leaves the store as it was.
C8_NoAutomaticDeletion ==
    [][op'.type \in {"lookup", "compute", "store"} =>
         /\ \A n \in CacheNames : DOMAIN shelf[n] \subseteq DOMAIN shelf'[n]
         /\ \A n \in CacheNames : \A k \in DOMAIN shelf[n] :
               shelf'[n][k] # shelf[n][k] =>
                  /\ op'.type = "store" /\ op'.outcome = "stored"
                  /\ k = op'.key /\ n = fdb[op'.f].name
         /\ op'.type # "store" => shelf' = shelf
         /\ (op'.type = "lookup" /\ op'.outcome = "stale") =>
               /\ op'.val = ""
               /\ frame'[op'.t].pc = "call"]_vars

\* A Get has found a stale entry and reported a miss while the store holds
\* entries for two keys, this one included.
C8_Witness ==
    /\ Answered(op) /\ op.outcome = "stale"
    /\ op.key \in DOMAIN StoreOf(op.f)
    /\ Cardinality(DOMAIN StoreOf(op.f)) = 2
    /\ frame[op.t].pc = "call"

\* A Get that an exception of the store interrupted (the key was derived).
LookupFailed(o) == o.type = "lookup" /\ ~Answered(o) /\ o.key # UNBOUND

\* C9, as claimed: when the store raises on the lookup, a record is appended
\* to the log; under fail_silently the Get is a miss and nothing reaches the
\* caller, otherwise the error is raised to the caller.
C9_FailSilentlyOnGet ==
    LookupFailed(op) =>
        /\ op.logged = "written"
        /\ IF deco[op.f].fail_silently
           THEN op.outcome = "swallowed" /\ op.val = "" /\ frame[op.t].pc = "call"
           ELSE op.outcome = "raised" /\ frame[op.t].pc = "idle"

\* C9, amended: _log_error is called in both cases, and appends the record
\* unless writing it fails, which is swallowed and changes nothing else.
C9_FailSilentlyOnGet_Amended ==
    LookupFailed(op) =>
        /\ op.logged \in {"written", "failed"}
        /\ IF deco[op.f].fail_silently
           THEN op.outcome = "swallowed" /\ op.val = "" /\ frame[op.t].pc = "call"
           ELSE op.outcome = "raised" /\ frame[op.t].pc = "idle"

\* The store raised on the lookup of a wrapper without fail_silently, and the
\* record was written.
C9_Witness ==
    /\ LookupFailed(op)
    /\ ~deco[op.f].fail_silently
    /\ op.outcome = "raised"
    /\ op.logged = "written"

\* C10: under fail_silently no exception of the cache layer leaves a call;
\* after a failure in the lookup phase (the key derivation included) the
\* wrapped function is still to be executed; it is executed once, and the
\* call returns what it returned, whether or not the Store succeeded.
C10_FailSilentlyCall ==
    [][(op'.type \in {"lookup", "compute", "store"} /\ deco[op'.f].fail_silently) =>
         /\ op'.type # "compute" => op'.outcome # "raised"
         /\ (op'.type = "lookup" /\ ~Answered(op')) =>
               /\ op'.outcome = "swallowed"
               /\ frame'[op'.t].pc = "call" /\ frame'[op'.t].ran = 0
         /\ op'.type = "compute" => op'.ran = 1
         /\ op'.type = "store" =>
               /\ op'.ran = 1
               /\ op'.val = frame[op'.t].retval /\ op'.val \in Values
               /\ frame'[op'.t].pc = "idle"]_vars

\* A call whose key derivation failed has executed the function once and
\* returned its result, the UnboundLocalError of the Store swallowed.
C10_Witness ==
    /\ op.type = "store" /\ op.key = UNBOUND
    /\ deco[op.f].fail_silently
    /\ op.outcome = "swallowed"
    /\ op.val \in Values /\ op.ran = 1

\* C11: single open per namespace.  At no time does more than one backend
\* object exist for one cache name, also when two threads set up functions of
\* that cache at the same time: DB(function) runs at most once per cache name
\* in one process.
C11_SingleOpen ==
    \A name \in AllCacheNames : Opened(name) <= 1

\* C12: concurrent Puts of one key whose assignments (line 203) take place
\* one after the other.  The entry of the key is exactly the entry of the
\* assignment that completed last: a completing assignment leaves its own
\* value and time under its key, whatever another thread stored since this
\* call looked the key up; nothing else changes an entry; every entry is a
\* whole one; and a hit returns the data of the entry that is there.
C12_LastStoreWins ==
    [][/\ (op'.type = "store" /\ op'.outcome = "stored")
            => /\ op'.key \in DOMAIN shelf'[fdb[op'.f].name]
               /\ shelf'[fdb[op'.f].name][op'.key]
                     = _retval(now, frame[op'.t].retval)
       /\ ~(op'.type = "store" /\ op'.outcome = "stored") => shelf' = shelf
       /\ \A n \in DOMAIN shelf' : \A k \in DOMAIN shelf'[n] :
             shelf'[n][k].data \in Values
       /\ (Answered(op') /\ op'.outcome = "hit")
            => op'.val = shelf[fdb[op'.f].name][op'.key].data]_vars

\* Two calls with one key are past their lookups with different results, and
\* one of them has just completed its assignment.
C12_Witness ==
    /\ op.type = "store" /\ op.outcome = "stored"
    /\ \E u \in AllThreads :
          /\ u # op.t
          /\ frame[u].pc = "store"
          /\ frame[u].f = op.f /\ frame[u].key = op.key
          /\ frame[u].retval # op.val
          /\ op.key \in DOMAIN StoreOf(op.f)

\* C13: namespace isolation, a namespace being a cache name (the name
\* _get_cache_name derives from the file of the function).  A Put of a
\* function changes no entry of another cache name; a hit of a function
\* returns the data its own cache name holds under the key; and a function
\* whose own cache name has no entry under the key misses, also when another
\* cache name holds an entry under the same key bytes.
C13_NamespaceIsolation ==
    [][LET own == _get_cache_name(op'.f) IN
       /\ (op'.type = "store" /\ op'.outcome = "stored")
            => \A n \in AllCacheNames \ {own} : shelf'[n] = shelf[n]
       /\ (Answered(op') /\ op'.outcome = "hit")
            => /\ op'.key \in DOMAIN shelf[own]
               /\ op'.val = shelf[own][op'.key].data
       /\ (Answered(op') /\ op'.key \notin DOMAIN shelf[own])
            => op'.outcome = "miss"]_vars

\* A function misses on a key under which the cache of another file holds an
\* entry.
C13_Witness ==
    /\ Answered(op) /\ op.outcome = "miss"
    /\ \E n \in AllCacheNames \ {_get_cache_name(op.f)} : op.key \in DOMAIN shelf[n]

\* C14: a window of zero or of negative length.  No lookup of a function
\* decorated with such a window is a hit, whatever the store holds (entries
\* of earlier runs with other windows included) and whatever the time is.
C14_NonPositiveWindow ==
    (Answered(op) /\ deco[op.f].validity \in NonPositive) => op.outcome # "hit"

\* A lookup under such a window finds an entry written at this very time,
\* and takes it for stale.
C14_Witness ==
    /\ Answered(op) /\ deco[op.f].validity \in NonPositive
    /\ op.key \in DOMAIN StoreOf(op.f)
    /\ StoreOf(op.f)[op.key].timesig = now
    /\ op.outcome = "stale"

\* C15: manual invalidation.  A Delete of key k raises nothing, whether k has
\* an entry or not, and leaves the store as it was but for k, which has no
\* entry afterwards: so a second Delete of k ends as the first did and
\* changes nothing.
C15_Delete ==
    [][op'.type = "delete"
         => /\ op'.outcome = "deleted"
            /\ shelf'[fdb[op'.f].name] = DelItem(shelf[fdb[op'.f].name], op'.key)
            /\ \A n \in AllCacheNames \ {fdb[op'.f].name} : shelf'[n] = shelf[n]]_vars

\* C16: the bare decorator.  A call of a function decorated with
\* '@functioncache' whose key has an entry (a first call stored a value)
\* returns the data of the entry, without raising and without running the
\* function, as under '@functioncache()' with its validity forever.
C16_BareDecorator ==
    (/\ op.type = "lookup"
     /\ deco[op.f].validity = BARE
     /\ op.key \in DOMAIN StoreOf(op.f))
    => (op.outcome = "hit" /\ op.val = StoreOf(op.f)[op.key].data)

\* C17: two different functions that share a backend never work on one key.
\* When a function has stored an entry and the next step is a lookup of
\* another function of the same backend, the lookup is under another key
\* than the entry's and is not answered from it, whatever the arguments and
\* also when the two functions carry the same name.
C17_KeysOfDistinctFunctions ==
    [][(/\ op.type = "store" /\ op.outcome = "stored"
        /\ Answered(op') /\ op'.f # op.f
        /\ fdb[op'.f] = fdb[op.f])
       => (op'.key # op.key /\ ~(op'.outcome = "hit" /\ op'.val = op.val))]_vars

\* C18: recovery from a crash in the middle of a Store.  A lookup of a key
\* whose record the crash left corrupt does not end in an error at the
\* caller: the call goes on as after a miss, to the function and to the
\* Store that replaces the record, so that the key does not stay unusable.
C18_CrashRecovery ==
    [][(op'.type = "lookup" /\ Corrupt(shelf[fdb[op'.f].name], op'.key))
         => (op'.outcome # "raised" /\ frame'[op'.t].pc = "call")]_vars

\* C19: the wrapped function raises.  Whatever fail_silently is, the call
\* ends there (the exception is the caller's), nothing is stored and the
\* stores are what they were, a stale entry of the key included; and when
\* the call had found a miss or a stale entry, a call with the same arguments
\* now finds the same and so runs the function again.
C19_FunctionRaises ==
    [][(op'.type = "compute" /\ op'.outcome = "raised")
         => /\ frame'[op'.t].pc = "idle"
            /\ shelf' = shelf /\ disk' = disk
            /\ (Answered(op) /\ op.outcome \in {"miss", "stale"})
                 => Lookup(shelf'[fdb'[op'.f].name], op'.key,
                           Validity(deco'[op'.f].validity), now')[1] = op.outcome]_vars

\* The function of a fail_silently wrapper has raised over a stale entry,
\* which is still there.
C19_Witness ==
    /\ op.type = "compute" /\ op.outcome = "raised"
    /\ deco[op.f].fail_silently
    /\ deco[op.f].validity # FOREVER
    /\ op.key \in DOMAIN StoreOf(op.f)
    /\ ~IsValid(StoreOf(op.f)[op.key], deco[op.f].validity, now)

\* C20: one backend per namespace, fixed by the first setup.  In one process
\* all decorated functions of one cache name have the same backend object as
\* their _db, whatever DB each was configured with, and the backend (and so
\* the variant) registered for a cache name is never replaced by another.
C20_SharedBackend ==
    [][/\ \A f, g \in DOMAIN fdb' :
             _get_cache_name(f) = _get_cache_name(g) => fdb'[f] = fdb'[g]
       /\ \A n \in DOMAIN OPEN_DBS \cap DOMAIN OPEN_DBS' :
             OPEN_DBS'[n] = OPEN_DBS[n]]_vars

====
